---- MODULE Spec2Model ----
(***************************************************************************)
(* A model of efind (src/efind.py): approximation of continuous values by  *)
(* E-series preferred numbers, and the brute-force Solver over them.       *)
(*                                                                         *)
(* Numbers.  Python floats are modelled in fixed point.  A quantity q is   *)
(* the integer 20*q ("ticks"): every multiple of 0.1 is an even tick       *)
(* count, so the E3..E12 mantissas and their decade multiples are exact.   *)
(* An odd tick count 2n-1 stands for the largest double below n/10; the    *)
(* model only draws it just below a power of ten, where math.log10 cannot  *)
(* tell the two apart (math.log10(999.9999999999999) == 3.0).  A mantissa  *)
(* x / decade is kept as the fraction [num |-> x, den |-> decade], and     *)
(* comparisons with it are cross-multiplied.  Decades are the integers     *)
(* 1, 10, 100, ...: quantities below 1.0 are outside the model.            *)
(***************************************************************************)
EXTENDS Integers, Sequences, FiniteSets, TLC

\* ---------------------------------------------------------------- bounds

\* Largest input of the value specification, in tenths (1000 = 100.0).
MaxTenths == 1000

\* ------------------------------------------------------------- constants

\* Ticks per unit: 1.0 is 20 ticks.
One == 2 * 10

\* Python's None, for an absent index, decade, exact value or maximum.
None == -999

\* float('inf').
Inf == 1000000000

\* The E series, in ticks.
E3 == <<20, 44, 94>>

E6 == <<20, 30, 44, 66, 94, 136>>

E12 == <<20, 24, 30, 36, 44, 54, 66, 78, 94, 112, 136, 164>>

AllSeries == {E3, E6, E12}

\* ------------------------------------------------------------ arithmetic

RECURSIVE Pow10(_)
\* 10**k for an integer k >= 0.
Pow10(k) == IF k <= 0 THEN 1 ELSE 10 * Pow10(k - 1)

RECURSIVE IsPow10(_)
IsPow10(n) == n = 1 \/ (n > 1 /\ n % 10 = 0 /\ IsPow10(n \div 10))

Abs(n) == IF n < 0 THEN -n ELSE n

RECURSIVE ExactFloorLog10(_)
\* floor of the real log10 of x ticks, x >= 1.0.
ExactFloorLog10(x) == IF x < 10 * One THEN 0 ELSE 1 + ExactFloorLog10(x \div 10)

\* floor(log10(x)) as the code computes it: log10 returns a double, and for
\* the largest double below 10^k (k >= 2) that double is k itself.
FloorLog10(x) ==
    IF x % 2 = 1 /\ x + 1 >= 100 * One /\ (x + 1) % One = 0 /\ IsPow10((x + 1) \div One)
    THEN ExactFloorLog10(x + 1)
    ELSE ExactFloorLog10(x)

\* a[i] with Python's indexing: from 0, a negative index counts from the end.
At(a, i) == IF i < 0 THEN a[Len(a) + i + 1] ELSE a[i + 1]

\* bisect.bisect_left(a, x) on a sorted a: how many entries are below x.
bisect_left(a, x) == Cardinality({j \in 1..Len(a) : a[j] * x.den < x.num})

\* bisect_lower without its second test, the one against a[0]*10.
bisect_lower_nowrapcheck(a, x) ==
    LET i == bisect_left(a, x)
    IN  IF i < Len(a) /\ At(a, i) * x.den > x.num THEN i - 1 ELSE i

bisect_lower(a, x) ==
    LET i == bisect_left(a, x)
    IN  IF \/ (i < Len(a) /\ At(a, i) * x.den > x.num)
           \/ (i >= Len(a) /\ At(a, i % Len(a)) * 10 * x.den > x.num)
        THEN i - 1
        ELSE i

approximate(x, series) ==
    IF x = Inf
    THEN <<None, Inf>>
    ELSE LET decade == Pow10(FloorLog10(x))
             mantissa == [num |-> x, den |-> decade]
             index == bisect_lower(series, mantissa)
         IN  IF index >= Len(series)
             THEN <<0, decade * 10>>
             ELSE <<index, decade>>

\* ------------------------------------------------------- ComponentValue

\* No ComponentValue (Python's None where a ComponentValue is expected).
NoValue == [exact |-> None, index |-> None, decade |-> None, approx |-> None,
            series |-> <<>>]

\* ComponentValue.__init__; the component is carried as its series.
ComponentValue(series, decade, index, exact) ==
    LET id == IF index = None
              THEN approximate(exact, series)
              ELSE <<index, decade>>
        approx == IF id[2] = Inf THEN Inf ELSE At(series, id[1]) * id[2]
    IN  [exact  |-> IF index = None THEN exact
                    ELSE IF exact = None THEN approx ELSE exact,
         index  |-> id[1],
         decade |-> id[2],
         approx |-> approx,
         series |-> series]

\* ComponentValue.error, approx / exact - 1, as a fraction.
error(self) == [num |-> self.approx - self.exact, den |-> self.exact]

\* p**2 < q**2 for fractions with positive denominators: |p| < |q|.
SquareLess(p, q) == Abs(p.num) * q.den < Abs(q.num) * p.den

\* get_other that wraps the index without rolling the decade.
get_other_noroll(self) ==
    IF self.approx >= self.exact
    THEN NoValue
    ELSE LET index == self.index + 1
         IN  ComponentValue(self.series,
                            self.decade,
                            IF index >= Len(self.series) THEN 0 ELSE index,
                            self.exact)

get_other(self) ==
    IF self.approx >= self.exact
    THEN NoValue
    ELSE LET index == self.index + 1
         IN  IF index >= Len(self.series)
             THEN ComponentValue(self.series, self.decade * 10, 0, self.exact)
             ELSE ComponentValue(self.series, self.decade, index, self.exact)

\* get_best with <= for <: a tie returns self.
get_best_ties_self(self) ==
    LET other == get_other(self)
    IN  IF other = NoValue THEN self
        ELSE IF ~SquareLess(error(other), error(self)) THEN self
        ELSE other

\* get_best that returns the alternative whenever there is one.
get_best_other(self) ==
    LET other == get_other(self)
    IN  IF other = NoValue THEN self ELSE other

get_best(self) ==
    LET other == get_other(self)
    IN  IF other = NoValue THEN self
        ELSE IF SquareLess(error(self), error(other)) THEN self
        ELSE other

\* ------------------------------------------------------------ Component

\* A calculate callable is named by a string; "none" is calculate=None.
\* The callables stand for the lambdas a problem definition passes in.
\*   "double":  lambda R1, *rest: 2*R1
\*   "sum":     lambda R1, R2: R1 + R2
\*   "drop":    lambda R1, *rest: R1 - 2.2
\*   "less":    lambda R1, R2: 10*(R2 - 4.4)
Calc(calculate, args) ==
    CASE calculate = "double" -> 2 * args[1]
      [] calculate = "sum"    -> args[1] + args[2]
      [] calculate = "drop"   -> args[1] - 44
      [] calculate = "less"   -> 10 * (args[2] - 88)

\* Component.__init__.  raised is "AssertionError" when an assert fails;
\* values is the bound method chosen, "unset" when the attribute is never
\* assigned.
Component(series, calculate, minimum, maximum, use_for_err) ==
    LET ok == minimum >= 0 /\ (maximum = None \/ maximum >= minimum)
        free == ok /\ calculate = "none" /\ minimum > 0
        start == IF free THEN approximate(minimum, series) ELSE <<None, None>>
    IN  [series       |-> series,
         calculate    |-> calculate,
         min          |-> minimum,
         max          |-> maximum,
         use_for_err  |-> use_for_err,
         raised       |-> IF ok THEN "" ELSE "AssertionError",
         values       |-> IF ~ok THEN "unset"
                          ELSE IF calculate # "none" THEN "_calculate_values"
                          ELSE IF minimum > 0 THEN "_iter_values"
                          ELSE "unset",
         start_index  |-> start[1],
         start_decade |-> start[2]]

\* The bounds filter at the end of Component._calculate_values.
InBounds(self, v) ==
    self.min <= v.exact /\ (self.max = None \/ self.max >= v.exact)

\* A ComponentValue followed by its get_other(), when there is one.
WithOther(v) ==
    LET other_ == get_other(v)
    IN  IF other_ # NoValue THEN <<v, other_>> ELSE <<v>>

\* The inner generator without its early return: when the formula on the
\* exact values is not positive, the approx-derived branch is still tried.
_calculate_values_ungated(self, prev) ==
    LET from_exact_val == Calc(self.calculate, [i \in 1..Len(prev) |-> prev[i].exact])
        from_approx_val == Calc(self.calculate, [i \in 1..Len(prev) |-> prev[i].approx])
    IN  (IF from_exact_val > 0
         THEN WithOther(ComponentValue(self.series, None, None, from_exact_val))
         ELSE <<>>) \o
        (IF from_approx_val > 0 /\ from_approx_val # from_exact_val
         THEN WithOther(ComponentValue(self.series, None, None, from_approx_val))
         ELSE <<>>)

\* The inner generator values() of Component._calculate_values: what it
\* yields, in order, before the bounds filter.
_calculate_values_unfiltered(self, prev) ==
    LET from_exact_val == Calc(self.calculate, [i \in 1..Len(prev) |-> prev[i].exact])
    IN  IF from_exact_val <= 0
        THEN <<>>
        ELSE LET from_exact == ComponentValue(self.series, None, None, from_exact_val)
                 from_approx_val ==
                     Calc(self.calculate, [i \in 1..Len(prev) |-> prev[i].approx])
                 from_approx == ComponentValue(self.series, None, None, from_approx_val)
             IN  WithOther(from_exact) \o
                 (IF from_approx_val > 0 /\ from_approx.exact # from_exact.exact
                  THEN WithOther(from_approx)
                  ELSE <<>>)

\* Component._calculate_values: everything the generator yields, in order.
_calculate_values(self, prev) ==
    SelectSeq(_calculate_values_unfiltered(self, prev), LAMBDA v : InBounds(self, v))

RECURSIVE IterFrom(_, _, _)
\* Component._iter_values from (index, decade) on, following _all_values:
\* the rest of this decade, then every index of each next decade, until the
\* first value above self.max.
IterFrom(self, index, decade) ==
    LET value == ComponentValue(self.series, decade, index, None)
    IN  IF value.approx > self.max
        THEN <<>>
        ELSE <<value>> \o
             (IF index + 1 < Len(self.series)
              THEN IterFrom(self, index + 1, decade)
              ELSE IterFrom(self, 0, decade * 10))

\* No generator (before comp.values is called, or when it is not _iter_values).
NoGen == [index |-> None, decade |-> None, state |-> "none"]

\* The generator self._iter_values(prev) as first created: suspended before
\* the first pair of _all_values.
NewGen(self) ==
    [index |-> self.start_index, decade |-> self.start_decade, state |-> "suspended"]

\* One resumption of the generator Component._iter_values, suspended at g:
\* the value at g's (index, decade) is yielded and g moves to the next pair
\* of _all_values, or the generator returns because that value is above
\* self.max.
Resume(self, g) ==
    LET value == ComponentValue(self.series, g.decade, g.index, None)
    IN  IF value.approx > self.max
        THEN [gen |-> [g EXCEPT !.state = "returned"], yielded |-> <<>>]
        ELSE [gen |-> IF g.index + 1 < Len(self.series)
                      THEN [g EXCEPT !.index = g.index + 1]
                      ELSE [g EXCEPT !.index = 0, !.decade = g.decade * 10],
              yielded |-> <<value>>]

\* Component._iter_values, for a component with a maximum (with max None the
\* comparison value.approx > self.max raises TypeError: see FirstValue).
_iter_values(self, prev) == IterFrom(self, self.start_index, self.start_decade)

\* comp.values(prev)
ValuesOf(self, prev) ==
    IF self.values = "_calculate_values"
    THEN _calculate_values(self, prev)
    ELSE _iter_values(self, prev)

\* --------------------------------------------------------------- Output

\* Output.calculate, named by a string.
\*   "spread":  lambda R1, R2, R3: R3 - R1
\*   "first":   lambda R1, *rest: R1
OutCalc(calculate, approx) ==
    CASE calculate = "spread" -> approx[Len(approx)] - approx[1]
      [] calculate = "first"  -> approx[1]

Output(expected, calculate) == [expected |-> expected, calculate |-> calculate]

\* Output.error
OutputError(self, value) == value - self.expected

\* --------------------------------------------------------------- Solver

\* The total error is kept in fixed point, ErrScale units to 1: the square
\* of a relative error is truncated to that resolution.
ErrScale == 100 * 100

\* Solver.__init__'s default threshold, 1e-3.
DefaultThreshold == ErrScale \div 1000

RECURSIVE GCD(_, _)
GCD(a, b) == IF b = 0 THEN a ELSE GCD(b, a % b)

RECURSIVE SumSeq(_)
SumSeq(s) == IF s = <<>> THEN 0 ELSE Head(s) + SumSeq(Tail(s))

\* o.error(v)**2, an output error of d ticks.
OutputErrorSquared(d) == d * d * (ErrScale \div (One * One))

\* v.error**2
ErrorSquared(v) ==
    LET e == error(v)
        g == GCD(Abs(e.num), e.den)
        n == Abs(e.num) \div g
        d == e.den \div g
    IN  (n * n * ErrScale) \div (d * d)

ApproxOf(values) == [i \in 1..Len(values) |-> values[i].approx]

OutputsOf(outputs, approx) ==
    [k \in 1..Len(outputs) |-> OutCalc(outputs[k].calculate, approx)]

\* err of Solver._evaluate
TotalError(components, outputs, values) ==
    LET outs == OutputsOf(outputs, ApproxOf(values))
    IN  SumSeq([k \in 1..Len(outputs) |->
                  OutputErrorSquared(OutputError(outputs[k], outs[k]))])
        + SumSeq([i \in 1..Len(components) |->
                  IF components[i].use_for_err THEN ErrorSquared(values[i]) ELSE 0])

\* _evaluate without the approx_seen test.
_evaluate_nodedup(self, values) ==
    LET approx == ApproxOf(values)
        outs == OutputsOf(self.outputs, approx)
        err == TotalError(self.components, self.outputs, values)
    IN  IF self.threshold = None \/ err < self.threshold
        THEN [self EXCEPT
                !.candidates = Append(@, [err |-> err, outputs |-> outs, values |-> values]),
                !.approx_seen = @ \cup {approx}]
        ELSE self

\* _evaluate with err <= threshold for err < threshold.
_evaluate_inclusive(self, values) ==
    LET approx == ApproxOf(values)
        outs == OutputsOf(self.outputs, approx)
        err == TotalError(self.components, self.outputs, values)
    IN  IF approx \in self.approx_seen
        THEN self
        ELSE IF self.threshold = None \/ err <= self.threshold
        THEN [self EXCEPT
                !.candidates = Append(@, [err |-> err, outputs |-> outs, values |-> values]),
                !.approx_seen = @ \cup {approx}]
        ELSE self

\* Solver._evaluate: the solver after the call.
_evaluate(self, values) ==
    LET approx == ApproxOf(values)
        outs == OutputsOf(self.outputs, approx)
        err == TotalError(self.components, self.outputs, values)
    IN  IF approx \in self.approx_seen
        THEN self
        ELSE IF self.threshold = None \/ err < self.threshold
        THEN [self EXCEPT
                !.candidates = Append(@, [err |-> err, outputs |-> outs, values |-> values]),
                !.approx_seen = @ \cup {approx}]
        ELSE self

RECURSIVE InsertByErr(_, _)
\* c goes after every entry whose err is not greater: a stable insertion.
InsertByErr(sorted, c) ==
    IF sorted = <<>> THEN <<c>>
    ELSE IF Head(sorted).err <= c.err
         THEN <<Head(sorted)>> \o InsertByErr(Tail(sorted), c)
         ELSE <<c>> \o sorted

RECURSIVE InsertBeforeEqual(_, _)
\* c goes before the entries of equal err: an unstable insertion.
InsertBeforeEqual(sorted, c) ==
    IF sorted = <<>> THEN <<c>>
    ELSE IF Head(sorted).err < c.err
         THEN <<Head(sorted)>> \o InsertBeforeEqual(Tail(sorted), c)
         ELSE <<c>> \o sorted

RECURSIVE SortWith(_, _)
SortWith(done, rest) ==
    IF rest = <<>> THEN done
    ELSE SortWith(InsertByErr(done, Head(rest)), Tail(rest))

RECURSIVE SortUnstable(_, _)
SortUnstable(done, rest) ==
    IF rest = <<>> THEN done
    ELSE SortUnstable(InsertBeforeEqual(done, Head(rest)), Tail(rest))

\* A sort on err that reverses the entries of equal err.
sort_unstable(candidates) == SortUnstable(<<>>, candidates)

\* self.candidates.sort(key=lambda v: v[0]): list.sort is stable.
sort(candidates) == SortWith(<<>>, candidates)

\* ----------------------------------------------------------------- state

VARIABLES
    x,        \* the exact value handed to approximate / ComponentValue
    ser,      \* the series in use
    result,   \* approximate(x, ser), once called
    node,     \* the ComponentValue under test
    other,    \* node.get_other(), once called
    best,     \* node.get_best(), once called
    vpc,      \* "new", "made", "other", "best"
    cargs,    \* the arguments of the last Component(...) call
    comp,     \* the Component it built
    cuse,     \* what the first use of comp.values did
    cpc,      \* "idle", "constructed", "used"
    gen,      \* the generator comp.values(prev) of a free component: where it
              \* stands in _all_values, and whether it has returned
    taken,    \* the values that generator has yielded so far
    solver,   \* the Solver: components, outputs, threshold, candidates, approx_seen
    values,   \* the list solve() hands down _recurse
    index,    \* the index of the running _recurse call
    pos,      \* per index, how many values that call's loop has taken
    spc,      \* "idle" (outside solve) or "recurse"
    solves,   \* completed solve() calls
    evaluated,  \* the last _evaluate call: its values, approx tuple and err,
                \* the candidates and approx_seen it found, and the solve()
                \* call it belongs to
    discovered, \* the approx tuples of the candidates, in the order appended
    scored      \* the approx tuples whose outputs and total error _evaluate
                \* has computed in the running solve(), one entry per
                \* computation

vvars == <<x, ser, result, node, other, best, vpc>>

cvars == <<cargs, comp, cuse, cpc, gen, taken>>

svars == <<solver, values, index, pos, spc, solves, evaluated, discovered, scored>>

vars == <<vvars, cvars, svars>>

\* ------------------------------------------------------------- problems

\* How many times solve() is called on one Solver.
MaxSolves == 2

\* A free parameter in [3.0, 10.0], twice it in [4.0, 20.0] on E6, and their
\* sum; one output, the spread between the last and the first, expected 2.5.
ProblemSum ==
    [components |-> << Component(E3, "none", 3 * One, 10 * One, FALSE),
                       Component(E6, "double", 4 * One, 20 * One, TRUE),
                       Component(E3, "sum", 0, None, TRUE) >>,
     outputs    |-> << Output((5 * One) \div 2, "spread") >>]

\* A free parameter in [1.0, 10.0] and that less 2.2, which is not positive
\* for the first two values; one output, the free parameter, expected 10.0.
ProblemDrop ==
    [components |-> << Component(E3, "none", One, 10 * One, FALSE),
                       Component(E3, "drop", 0, None, FALSE) >>,
     outputs    |-> << Output(10 * One, "first") >>]

\* A free parameter in [1.0, 10.0], twice it, and ten times what the second
\* has above 4.4: for the second value 4.4 taken as 4.7 that is not positive
\* on the exact values and 3.0 on the approx values.
ProblemLess ==
    [components |-> << Component(E3, "none", One, 10 * One, FALSE),
                       Component(E3, "double", 0, None, FALSE),
                       Component(E3, "less", 0, None, TRUE) >>,
     outputs    |-> << Output(10 * One, "first") >>]

Problems == {ProblemSum, ProblemDrop, ProblemLess}

Thresholds == {None, 0, DefaultThreshold, ErrScale}

\* Solver.__init__
Solver(components, outputs, threshold) ==
    [components  |-> components,
     outputs     |-> outputs,
     candidates  |-> <<>>,
     approx_seen |-> {},
     threshold   |-> threshold]

NoEvaluation ==
    [approx |-> <<>>, err |-> None, values |-> <<>>, before |-> <<>>,
     seen_before |-> {}, call |-> None]

NoComponent == Component(E3, "none", 0, None, FALSE)

IdleValue ==
    /\ x = One
    /\ ser = E3
    /\ result = <<>>
    /\ node = NoValue
    /\ other = NoValue
    /\ best = NoValue
    /\ vpc = "new"

IdleCtor ==
    /\ cargs = <<>>
    /\ comp = NoComponent
    /\ cuse = ""
    /\ cpc = "idle"
    /\ gen = NoGen
    /\ taken = <<>>

IdleSolver ==
    /\ solver = Solver(<<>>, <<>>, None)
    /\ values = <<>>
    /\ index = 0
    /\ pos = <<>>
    /\ spc = "idle"
    /\ solves = 0
    /\ evaluated = NoEvaluation
    /\ discovered = <<>>
    /\ scored = <<>>

\* ---------------------------------------------- the value specification

\* Inputs: every multiple of 0.1 from 1.0, the largest double below each
\* power of ten from 100 up, and infinity.
Inputs ==
    {2 * t : t \in 10..MaxTenths}
        \cup {2 * t - 1 : t \in {u \in 1000..MaxTenths : IsPow10(u)}}
        \cup {Inf}

Decades == {d \in 1..(MaxTenths \div 10) : IsPow10(d)}

InitValue ==
    /\ x \in Inputs
    /\ ser \in AllSeries
    /\ result = <<>>
    /\ node = NoValue
    /\ other = NoValue
    /\ best = NoValue
    /\ vpc = "new"
    /\ IdleCtor
    /\ IdleSolver

\* ComponentValue(component, exact=x)
NewFromExact ==
    /\ vpc = "new"
    /\ result' = approximate(x, ser)
    /\ node' = ComponentValue(ser, None, None, x)
    /\ vpc' = "made"
    /\ UNCHANGED <<x, ser, other, best, cvars, svars>>

\* ComponentValue(component, index=index, decade=decade), as _iter_values does
NewFromIndex ==
    /\ vpc = "new"
    /\ x = One
    /\ \E i \in 0..(Len(ser) - 1), decade \in Decades :
          node' = ComponentValue(ser, decade, i, None)
    /\ vpc' = "made"
    /\ UNCHANGED <<x, ser, result, other, best, cvars, svars>>

GetOther ==
    /\ vpc = "made"
    /\ other' = get_other(node)
    /\ vpc' = "other"
    /\ UNCHANGED <<x, ser, result, node, best, cvars, svars>>

GetBest ==
    /\ vpc = "other"
    /\ best' = get_best(node)
    /\ vpc' = "best"
    /\ UNCHANGED <<x, ser, result, node, other, cvars, svars>>

NextValue == NewFromExact \/ NewFromIndex \/ GetOther \/ GetBest

ValueSpec == InitValue /\ [][NextValue]_vars

\* ------------------------------------------ the constructor specification

\* The minimums include the largest double below 100.0.
Minimums == {-One, 0, One, 3 * One, 100 * One - 1}

Maximums == {None, One, 2 * One, 10 * One, 220 * One, 1000 * One}

InitCtor == IdleValue /\ IdleCtor /\ IdleSolver

\* Component(series=..., calculate=..., minimum=..., maximum=..., use_for_err=...)
Construct ==
    /\ cpc = "idle"
    /\ \E series \in AllSeries, calculate \in {"none", "double"},
          minimum \in Minimums, maximum \in Maximums, use_for_err \in BOOLEAN :
          /\ cargs' = [series |-> series, calculate |-> calculate,
                       minimum |-> minimum, maximum |-> maximum,
                       use_for_err |-> use_for_err]
          /\ comp' = Component(series, calculate, minimum, maximum, use_for_err)
    /\ cpc' = "constructed"
    /\ UNCHANGED <<cuse, gen, taken, vvars, svars>>

\* The first step of _recurse's loop over comp.values(prev), for a component
\* that was constructed; prev holds one value for a dependent component.
FirstValue ==
    /\ cpc = "constructed"
    /\ comp.raised = ""
    /\ cuse' =
          IF comp.values = "unset" THEN "AttributeError"
          ELSE IF comp.values = "_iter_values"
          THEN IF comp.max = None THEN "TypeError"
               ELSE IF _iter_values(comp, <<>>) = <<>> THEN "StopIteration"
               ELSE "value"
          ELSE IF _calculate_values(comp, <<ComponentValue(E3, 1, 1, None)>>) = <<>>
               THEN "StopIteration"
               ELSE "value"
    /\ IF comp.values = "_iter_values" /\ comp.max # None
       THEN LET r == Resume(comp, NewGen(comp))
            IN  gen' = r.gen /\ taken' = r.yielded
       ELSE UNCHANGED <<gen, taken>>
    /\ cpc' = "used"
    /\ UNCHANGED <<cargs, comp, vvars, svars>>

\* A later step of the loop over a free component's values: the generator
\* is resumed.
NextFreeValue ==
    /\ cpc = "used"
    /\ gen.state = "suspended"
    /\ LET r == Resume(comp, gen)
       IN  gen' = r.gen /\ taken' = taken \o r.yielded
    /\ UNCHANGED <<cargs, comp, cuse, cpc, vvars, svars>>

NextCtor == Construct \/ FirstValue \/ NextFreeValue

CtorSpec == InitCtor /\ [][NextCtor]_vars

\* --------------------------------------------- the solver specification

Init ==
    /\ IdleValue
    /\ IdleCtor
    /\ \E problem \in Problems, threshold \in Thresholds :
          solver = Solver(problem.components, problem.outputs, threshold)
    /\ values = <<>>
    /\ index = 0
    /\ pos = <<>>
    /\ spc = "idle"
    /\ solves = 0
    /\ evaluated = NoEvaluation
    /\ discovered = <<>>
    /\ scored = <<>>

\* The values the loop of the running _recurse call iterates over:
\* comp.values(values[:index]).
Generated ==
    ValuesOf(solver.components[index + 1], SubSeq(values, 1, index))

\* solve(), up to the first _recurse call.
Solve ==
    /\ spc = "idle"
    /\ solves < MaxSolves
    /\ values' = [i \in 1..Len(solver.components) |-> NoValue]
    /\ index' = 0
    /\ pos' = [i \in 1..Len(solver.components) |-> 0]
    /\ spc' = "recurse"
    /\ scored' = <<>>
    /\ UNCHANGED <<solver, solves, evaluated, discovered, vvars, cvars>>

\* _recurse, index < len(components): the loop takes its next value and
\* calls _recurse(values, index + 1).
RecurseNext ==
    /\ spc = "recurse"
    /\ index < Len(solver.components)
    /\ pos[index + 1] < Len(Generated)
    /\ values' = [values EXCEPT ![index + 1] = Generated[pos[index + 1] + 1]]
    /\ pos' = [i \in 1..Len(pos) |->
                 IF i = index + 1 THEN pos[i] + 1
                 ELSE IF i = index + 2 THEN 0
                 ELSE pos[i]]
    /\ index' = index + 1
    /\ UNCHANGED <<solver, spc, solves, evaluated, discovered, scored, vvars, cvars>>

\* _recurse, index >= len(components): _evaluate(values), and return.
RecurseEvaluate ==
    /\ spc = "recurse"
    /\ index >= Len(solver.components)
    /\ solver' = _evaluate(solver, values)
    /\ evaluated' = [approx      |-> ApproxOf(values),
                     err         |-> TotalError(solver.components, solver.outputs, values),
                     values      |-> values,
                     before      |-> solver.candidates,
                     seen_before |-> solver.approx_seen,
                     call        |-> solves]
    /\ discovered' = IF Len(solver'.candidates) > Len(solver.candidates)
                     THEN Append(discovered, ApproxOf(values))
                     ELSE discovered
    /\ scored' = IF ApproxOf(values) \in solver.approx_seen
                 THEN scored
                 ELSE Append(scored, ApproxOf(values))
    /\ index' = index - 1
    /\ UNCHANGED <<values, pos, spc, solves, vvars, cvars>>

\* _recurse, index > 0: the loop is exhausted, the call returns.
RecurseReturn ==
    /\ spc = "recurse"
    /\ index < Len(solver.components)
    /\ index > 0
    /\ pos[index + 1] >= Len(Generated)
    /\ index' = index - 1
    /\ UNCHANGED <<solver, values, pos, spc, solves, evaluated, discovered, scored,
                   vvars, cvars>>

\* The outermost _recurse call returns to solve(), which sorts the
\* candidates and returns.
SolveReturn ==
    /\ spc = "recurse"
    /\ index = 0
    /\ pos[1] >= Len(Generated)
    /\ solver' = [solver EXCEPT !.candidates = sort(@)]
    /\ spc' = "idle"
    /\ solves' = solves + 1
    /\ UNCHANGED <<values, index, pos, evaluated, discovered, scored, vvars, cvars>>

Next == Solve \/ RecurseNext \/ RecurseEvaluate \/ RecurseReturn \/ SolveReturn

Spec == Init /\ [][Next]_vars

\* ------------------------------------------------- claims on the values

\* Every value series[j] * 10^k of the model's range.
Representable(series) ==
    {series[j] * d : j \in 1..Len(series), d \in {1, 10, 100, 1000, 10000}}

Called == vpc # "new" /\ result # <<>>

\* The mantissa approximate computes for x: x / 10**floor(log10(x)).
MantissaOf(v) == [num |-> v, den |-> Pow10(FloorLog10(v))]

AboveAllEntries(series, m) == \A j \in 1..Len(series) : series[j] * m.den < m.num

\* C1: for every finite x > 0 and every series, approximate(x, series)
\* returns (index, decade) with 0 <= index < len(series), decade a power of
\* ten, series[index]*decade <= x and no series value strictly between
\* series[index]*decade and x; and approximate(series[i]*10^k) == (i, 10^k).
C1_ApproximateContract ==
    (Called /\ x # Inf) =>
        /\ result[1] >= 0
        /\ result[1] < Len(ser)
        /\ IsPow10(result[2])
        /\ At(ser, result[1]) * result[2] <= x
        /\ \A r \in Representable(ser) :
              ~(At(ser, result[1]) * result[2] < r /\ r < x)
        /\ \A i \in 0..(Len(ser) - 1) : \A d \in {1, 10, 100} :
              x = At(ser, i) * d => result = <<i, d>>

\* C6 as claimed: on a tie of squared relative error get_best returns self.
C6_TieFavorsSelf ==
    (vpc = "best" /\ other # NoValue
        /\ ~SquareLess(error(node), error(other))
        /\ ~SquareLess(error(other), error(node)))
    => best = node

\* C6, amended: on a tie of squared relative error get_best returns the
\* alternative, get_other(); self is returned only when strictly closer.
C6_TieFavorsOther ==
    (vpc = "best" /\ other # NoValue)
    => /\ (~SquareLess(error(node), error(other))
             /\ ~SquareLess(error(other), error(node))) => best = other
       /\ best = node <=> SquareLess(error(node), error(other))

C6_Witness ==
    /\ vpc = "best"
    /\ other # NoValue
    /\ ~SquareLess(error(node), error(other))
    /\ ~SquareLess(error(other), error(node))
    /\ best = other

\* C7: get_best returns a node of {self, get_other()} whose squared
\* relative error is minimal among them (self when get_other() is None);
\* for series (1.0, 2.2, 4.7) and exact 3.0 the node is index 1 (2.2), the
\* other is index 2 (4.7) and get_best returns the 2.2 node.
C7_BestIsMinimal ==
    vpc = "best" =>
        /\ other = NoValue => best = node
        /\ other # NoValue =>
              /\ best \in {node, other}
              /\ ~SquareLess(error(node), error(best))
              /\ ~SquareLess(error(other), error(best))
        /\ (ser = E3 /\ x = 3 * One /\ result # <<>>) =>
              /\ node.index = 1 /\ node.approx = 44
              /\ other.index = 2 /\ other.approx = 94
              /\ best = node

C7_Witness ==
    /\ vpc = "best"
    /\ ser = E3 /\ x = 3 * One /\ result # <<>>
    /\ other # NoValue
    /\ SquareLess(error(node), error(other))
    /\ best = node

\* C8: get_other() returns a node if and only if approx < exact; that node
\* keeps exact, takes the next index in the same decade, or index 0 in
\* decade*10 after the last index, and its approx exceeds the original's.
C8_GetOther ==
    vpc \in {"other", "best"} =>
        /\ other # NoValue <=> node.approx < node.exact
        /\ other # NoValue =>
              /\ other.exact = node.exact
              /\ \/ /\ node.index + 1 < Len(ser)
                    /\ other.index = node.index + 1
                    /\ other.decade = node.decade
                 \/ /\ node.index = Len(ser) - 1
                    /\ other.index = 0
                    /\ other.decade = node.decade * 10
              /\ other.approx > node.approx

C8_Witness ==
    /\ vpc = "other"
    /\ node.approx < node.exact
    /\ node.index = Len(ser) - 1
    /\ other.index = 0
    /\ other.decade = node.decade * 10

\* C10 as claimed: a mantissa above every series entry wraps to index 0 of
\* the next decade.
C10_WrapsToNextDecade ==
    (Called /\ x # Inf /\ AboveAllEntries(ser, MantissaOf(x)))
    => result = <<0, MantissaOf(x).den * 10>>

\* C10, amended: a mantissa above every series entry and below 10 yields
\* the last series index in the current decade; index 0 of the next decade
\* is returned only for a computed mantissa of 10 or more.
C10_LastIndexSameDecade ==
    (Called /\ x # Inf) =>
        /\ (AboveAllEntries(ser, MantissaOf(x)) /\ MantissaOf(x).num < 10 * One * MantissaOf(x).den)
              => result = <<Len(ser) - 1, MantissaOf(x).den>>
        /\ result = <<0, MantissaOf(x).den * 10>>
              => MantissaOf(x).num >= 10 * One * MantissaOf(x).den

C10_Witness ==
    /\ Called
    /\ 2 * x = 19 * One
    /\ AboveAllEntries(ser, MantissaOf(x))
    /\ result = <<Len(ser) - 1, 1>>

\* ------------------------------------------------ claims on the Solver

Candidates == solver.candidates

CandidateApprox(k) == ApproxOf(Candidates[k].values)

\* Where a candidate's approx tuple stands in the order of discovery.
DiscoveryIndex(k) ==
    CHOOSE d \in 1..Len(discovered) : discovered[d] = CandidateApprox(k)

\* The last _evaluate call of the running solve() found a new approx tuple.
EvaluatedNew ==
    /\ spc = "recurse"
    /\ evaluated.call = solves
    /\ evaluated.approx \notin evaluated.seen_before

\* C2: in every list of candidates recorded by solve(), every parameter
\* value has its approx inside its component's bounds: minimum <= approx,
\* and approx <= maximum when a maximum is configured.
C2_ApproxInBounds ==
    \A k \in 1..Len(Candidates) : \A i \in 1..Len(solver.components) :
        LET c == solver.components[i]
            v == Candidates[k].values[i]
        IN  c.min <= v.approx /\ (c.max = None \/ v.approx <= c.max)

\* C3: the approx tuples of the recorded candidates are pairwise distinct,
\* at every point of every solve() call on the same Solver.
C3_DistinctApprox ==
    \A j, k \in 1..Len(Candidates) :
        j # k => CandidateApprox(j) # CandidateApprox(k)

C3_Witness ==
    /\ solves >= 1
    /\ spc = "recurse"
    /\ evaluated.call = solves
    /\ evaluated.approx \in evaluated.seen_before
    /\ Len(Candidates) >= 2
    /\ \E k \in 1..Len(Candidates) : CandidateApprox(k) = evaluated.approx

C5_SortedStable ==
    (spc = "idle" /\ solves >= 1) =>
        \A j, k \in 1..Len(Candidates) :
            j < k =>
                /\ Candidates[j].err <= Candidates[k].err
                /\ Candidates[j].err = Candidates[k].err
                      => DiscoveryIndex(j) < DiscoveryIndex(k)

C5_Witness ==
    /\ spc = "idle"
    /\ solves >= 1
    /\ \E j, k \in 1..Len(Candidates) :
          /\ j < k
          /\ Candidates[j].err = Candidates[k].err
    /\ \E j, k \in 1..Len(Candidates) :
          /\ j < k
          /\ Candidates[j].err < Candidates[k].err
          /\ DiscoveryIndex(j) > DiscoveryIndex(k)

\* C11: within one solve(), for each distinct approx tuple the outputs and
\* the total error are computed at most once, whether or not the earlier
\* assignment of that tuple passed the threshold.
C11_ScoredOnce ==
    \A j, k \in 1..Len(scored) : j # k => scored[j] # scored[k]

\* The running _recurse call loops over the values of a dependent parameter.
DependentRunning ==
    /\ spc = "recurse"
    /\ index < Len(solver.components)
    /\ solver.components[index + 1].values = "_calculate_values"

\* The formula of the running call's component on the prefix's exact values
\* and on its approx values.
FormulaOnExact ==
    Calc(solver.components[index + 1].calculate, [i \in 1..index |-> values[i].exact])

FormulaOnApprox ==
    Calc(solver.components[index + 1].calculate, [i \in 1..index |-> values[i].approx])

\* The node for a target value followed by its get_other(), if defined.
Branch(series, target) ==
    LET n == ComponentValue(series, None, None, target)
    IN  IF get_other(n) = NoValue THEN <<n>> ELSE <<n, get_other(n)>>

\* C13: for a dependent parameter and the prefix of resolved values, if the
\* formula on the prefix's exact values is <= 0 nothing is yielded, even
\* when the formula on the approx values is positive; otherwise the inner
\* generator produces the exact-derived node and its get_other() (if
\* defined), followed by the approx-derived node and its get_other() if and
\* only if the formula on the approx values is > 0 and differs from the
\* exact-derived target.  At most four nodes are produced per prefix, and at
\* most two when every prior node has exact = approx, as every node of a
\* free parameter has; the bounds filter yields no more than was produced.
C13_DependentBranches ==
    DependentRunning =>
        LET c == solver.components[index + 1]
            produced == _calculate_values_unfiltered(c, SubSeq(values, 1, index))
            first == Branch(c.series, FormulaOnExact)
        IN  /\ FormulaOnExact <= 0 => (produced = <<>> /\ Generated = <<>>)
            /\ FormulaOnExact > 0 =>
                  /\ Len(produced) >= Len(first)
                  /\ SubSeq(produced, 1, Len(first)) = first
                  /\ (Len(produced) > Len(first))
                        <=> (FormulaOnApprox > 0 /\ FormulaOnApprox # FormulaOnExact)
                  /\ Len(produced) > Len(first) =>
                        SubSeq(produced, Len(first) + 1, Len(produced))
                            = Branch(c.series, FormulaOnApprox)
            /\ Len(produced) <= 4
            /\ Len(Generated) <= Len(produced)
            /\ (\A i \in 1..index : values[i].exact = values[i].approx)
                  => Len(produced) <= 2
            /\ \A i \in 1..index :
                  solver.components[i].values = "_iter_values"
                      => values[i].exact = values[i].approx

\* The formula is not positive on the exact values and positive on the
\* approx values, and the running call has nothing to loop over.
C13_Witness ==
    /\ DependentRunning
    /\ FormulaOnExact <= 0
    /\ FormulaOnApprox > 0
    /\ Generated = <<>>

\* ------------------------------------------- claims on the constructor

\* The pair of _all_values after (index, decade), for a series of length n.
PairAfter(n, i, d) ==
    IF i + 1 < n THEN <<i + 1, d>> ELSE <<0, d * 10>>

\* The generator of a free component (minimum > 0, a finite maximum) has
\* been started.
FreeStarted == cpc = "used" /\ gen.state # "none"

\* C12: free enumeration for a parameter with minimum > 0 and a finite
\* maximum yields nodes in strictly increasing order of approx, beginning at
\* the (index, decade) approximate(minimum) returns, then every following
\* index of that decade and every index of each following decade, none
\* skipped; every yielded node has approx <= maximum, the enumeration stops
\* at the first node whose approx exceeds the maximum, and it is finite.
C12_FreeEnumeration ==
    FreeStarted =>
        /\ \A j \in 1..(Len(taken) - 1) : taken[j].approx < taken[j + 1].approx
        /\ Len(taken) >= 1 =>
              <<taken[1].index, taken[1].decade>>
                  = approximate(cargs.minimum, cargs.series)
        /\ \A j \in 1..(Len(taken) - 1) :
              <<taken[j + 1].index, taken[j + 1].decade>>
                  = PairAfter(Len(cargs.series), taken[j].index, taken[j].decade)
        /\ \A j \in 1..Len(taken) : taken[j].approx <= cargs.maximum
        /\ gen.state = "returned" =>
              /\ ComponentValue(cargs.series, gen.decade, gen.index, None).approx
                    > cargs.maximum
              /\ <<gen.index, gen.decade>> =
                    IF taken = <<>>
                    THEN approximate(cargs.minimum, cargs.series)
                    ELSE PairAfter(Len(cargs.series), taken[Len(taken)].index,
                                   taken[Len(taken)].decade)
        /\ Len(taken) <= Len(cargs.series) * (ExactFloorLog10(cargs.maximum) + 1) + 1

====
